---- MODULE Spec2Model ----
(***************************************************************************)
(* A model of the MCP server of src/mcpServer.js: the tool catalog, the    *)
(* list_tools / call_tool request handlers, the REST endpoints and the     *)
(* per-session registries of the SSE transport and the stdio start-up and  *)
(* interrupt handling.                                                     *)
(*                                                                         *)
(* Every `await` of a handler is a point where other handlers may run, so  *)
(* a handler is one action per stretch of code between two awaits.         *)
(***************************************************************************)
EXTENDS Integers, Sequences, FiniteSets, TLC

\* Longest catalog discoverTools() returns in the model.
MaxTools == 3
\* Number of GET /sse connections accepted during one run of the model.
MaxSessions == 2
\* Most call_tool dispatches one server has awaiting at a time in the model.
MaxInFlight == 2

VARIABLES
    proc,         \* run(): how far start-up got, the SIGINT handler, the exit
    isSSE,        \* run(): process.argv includes "--sse"
    nodeEnv,      \* process.env.NODE_ENV
    tools,        \* run(): const tools = await discoverTools()
    transports,   \* run(): const transports = {}   (sessionId -> transport)
    servers,      \* run(): const servers = {}      (sessionId -> server)
    conn,         \* position of each session's GET /sse and close handlers
    nextSession,  \* number of SSEServerTransport instances created so far
    calls,        \* per server: the call_tool handlers awaiting tool.function
    resp,         \* the last answer of a list_tools / call_tool handler
    rest,         \* the POST /api/call-tool handler awaiting tool.function
    restResp,     \* the last answer of a REST endpoint
    lastPost      \* the last POST /messages and what the handler did with it

vars == <<proc, isSSE, nodeEnv, tools, transports, servers, conn, nextSession,
          calls, resp, rest, restResp, lastPost>>

(***************************************************************************)
(* Values                                                                  *)
(***************************************************************************)

\* Marks a key that an arguments object does not have.
Absent == "<absent>"

\* Names the tool files of the repository give their tools.
ToolNames == {"request_access_token", "search_flight_offers"}

\* Names a request may carry: the catalog's names and one that differs from a
\* catalog name in case only.
RequestNames == ToolNames \cup {"Search_Flight_Offers"}

\* Parameter names of a tool schema (those of request_access_token).
ParamKeys == {"client_id", "client_secret"}

\* JSON values an argument may have; the handlers never look at them.
JsValues == {"null", "JFK"}

\* A request's `arguments`: absent (given = FALSE) or an object, modelled as
\* a map from every key to its value or to Absent.
NoArguments == [given |-> FALSE, map |-> [k \in ParamKeys |-> Absent]]

Arguments ==
    {[given |-> TRUE, map |-> m] : m \in [ParamKeys -> JsValues \cup {Absent}]}
        \cup {NoArguments}

\* Properties every object literal inherits from Object.prototype.
ObjectPrototypeKeys == {"constructor", "toString"}

\* `required` lists of the schemas in the model: that of
\* request_access_token.
RequiredLists == {<<"client_id", "client_secret">>}

\* An apiTool export: { function, definition: { function: { name,
\* description, parameters: { required } } } }.
ApiTool(name, hasRequired, required) ==
    [wrapper |-> TRUE, name |-> name, description |-> "about " \o name,
     hasRequired |-> hasRequired, required |-> required]

\* A catalog entry without the definition.function wrapper.
MalformedTool ==
    [wrapper |-> FALSE, name |-> "", description |-> "",
     hasRequired |-> FALSE, required |-> <<>>]

ToolEntries ==
    {ApiTool(n, FALSE, <<>>) : n \in ToolNames}
        \cup {ApiTool(n, TRUE, r) : n \in ToolNames, r \in RequiredLists}
        \cup {MalformedTool}

\* What discoverTools() may return: any sequence of entries, duplicates of
\* a name and malformed entries included.
discoverTools ==
    UNION {[1..n -> ToolEntries] : n \in 0..MaxTools}

\* The tool of step-0-authorization.js.
request_access_token ==
    ApiTool("request_access_token", TRUE, <<"client_id", "client_secret">>)

\* What a tool implementation may do once invoked: resolve with a value
\* ("circular" is a value JSON.stringify cannot serialise) or reject with an
\* Error carrying a message.
ImplResults == {"data", "circular"}
ImplErrors == {"fetch failed"}

(***************************************************************************)
(* JavaScript operations the handlers use                                  *)
(***************************************************************************)

\* `key in args`: a TypeError when args is not an object, else TRUE for an
\* own or inherited property.
In(key, args) ==
    \/ key \in DOMAIN args.map /\ args.map[key] # Absent
    \/ key \in ObjectPrototypeKeys

\* tools.find((t) => t.definition.function.name === toolName), from index i:
\* the predicate throws on the first entry without the wrapper it reaches.
RECURSIVE FindFrom(_, _, _)
FindFrom(catalog, toolName, i) ==
    IF i > Len(catalog) THEN [kind |-> "undefined", index |-> 0]
    ELSE IF ~catalog[i].wrapper THEN [kind |-> "TypeError", index |-> 0]
    ELSE IF catalog[i].name = toolName THEN [kind |-> "found", index |-> i]
    ELSE FindFrom(catalog, toolName, i + 1)

Find(catalog, toolName) == FindFrom(catalog, toolName, 1)

\* tool.definition?.function?.parameters?.required || []
RequiredParameters(tool) ==
    IF tool.wrapper /\ tool.hasRequired THEN tool.required ELSE <<>>

\* for (const p of required) { if (!(p in args)) <fail with p> }: the first
\* parameter of the list, from index i, that is not in args.
RECURSIVE FirstMissingFrom(_, _, _)
FirstMissingFrom(required, args, i) ==
    IF i > Len(required) THEN [kind |-> "ok", param |-> ""]
    ELSE IF ~args.given THEN [kind |-> "TypeError", param |-> required[i]]
    ELSE IF ~In(required[i], args) THEN [kind |-> "missing", param |-> required[i]]
    ELSE FirstMissingFrom(required, args, i + 1)

FirstMissing(required, args) == FirstMissingFrom(required, args, 1)

\* .map(...) of transformTools: undefined for an entry without the wrapper.
WireEntry(tool) ==
    IF ~tool.wrapper THEN [defined |-> FALSE, name |-> "", description |-> "",
                           hasRequired |-> FALSE, required |-> <<>>]
    ELSE [defined |-> TRUE, name |-> tool.name, description |-> tool.description,
          hasRequired |-> tool.hasRequired, required |-> tool.required]

\* .filter(Boolean)
RECURSIVE FilterBoolean(_)
FilterBoolean(s) ==
    IF s = <<>> THEN <<>>
    ELSE IF Head(s).defined THEN <<Head(s)>> \o FilterBoolean(Tail(s))
    ELSE FilterBoolean(Tail(s))

\* A faulty transformTools that forgets .filter(Boolean): C10 fails with it.
transformToolsUnfiltered(catalog) ==
    [i \in 1..Len(catalog) |-> WireEntry(catalog[i])]

transformTools(catalog) ==
    FilterBoolean([i \in 1..Len(catalog) |-> WireEntry(catalog[i])])

\* tools.map(t => t.definition.function.name): throws on a malformed entry.
ToolNameList(catalog) ==
    IF \E i \in 1..Len(catalog) : ~catalog[i].wrapper
    THEN [kind |-> "TypeError", names |-> <<>>]
    ELSE [kind |-> "ok", names |-> [i \in 1..Len(catalog) |-> catalog[i].name]]

(***************************************************************************)
(* Servers, requests and answers                                           *)
(***************************************************************************)

\* transport.sessionId of the n-th SSEServerTransport (a fresh UUID).
SessionId(n) == "session-" \o ToString(n)

SessionIds == {SessionId(n) : n \in 1..MaxSessions}

\* The one Server of stdio mode.
StdioServer == "stdio"

Servers == SessionIds \cup {StdioServer}

\* request.params of a call_tool request.
CallRequests == [name : RequestNames, args : Arguments]

NoRequest == [name |-> "", args |-> NoArguments]

NodeEnvs == {"development", "production"}

\* What a handler ends with: a returned envelope or a thrown error.
McpError(code, message) ==
    [kind |-> "McpError", code |-> code, message |-> message, text |-> ""]

TypeError(message) ==
    [kind |-> "TypeError", code |-> "", message |-> message, text |-> ""]

ContentEnvelope(text) ==
    [kind |-> "success", code |-> "", message |-> <<>>, text |-> text]

NoOutcome == [kind |-> "none", code |-> "", message |-> <<>>, text |-> ""]

\* JSON.stringify(result, null, 2)
JsonStringify(result) ==
    IF result = "circular"
    THEN [kind |-> "TypeError", text |-> "Converting circular structure to JSON"]
    ELSE [kind |-> "ok", text |-> "json:" \o result]

\* A faulty call_tool handler without the loop over the required
\* parameters: C21 fails with it.
CallToolSyncUnvalidated(catalog, request) ==
    LET found == Find(catalog, request.name) IN
    IF found.kind = "TypeError"
    THEN [kind |-> "throw", tool |-> 0,
          outcome |-> TypeError(<<"Cannot read properties of undefined">>)]
    ELSE IF found.kind = "undefined"
    THEN [kind |-> "throw", tool |-> 0,
          outcome |-> McpError("MethodNotFound", <<"Unknown tool: ", request.name>>)]
    ELSE [kind |-> "await", tool |-> found.index, outcome |-> NoOutcome]

\* The call_tool handler up to its first await: it throws, or it has invoked
\* tool.function(args) of the entry at `tool` and awaits it.
CallToolSync(catalog, request) ==
    LET found == Find(catalog, request.name) IN
    IF found.kind = "TypeError"
    THEN [kind |-> "throw", tool |-> 0,
          outcome |-> TypeError(<<"Cannot read properties of undefined">>)]
    ELSE IF found.kind = "undefined"
    THEN [kind |-> "throw", tool |-> 0,
          outcome |-> McpError("MethodNotFound", <<"Unknown tool: ", request.name>>)]
    ELSE LET missing == FirstMissing(RequiredParameters(catalog[found.index]),
                                     request.args) IN
         IF missing.kind = "TypeError"
         THEN [kind |-> "throw", tool |-> 0,
               outcome |-> TypeError(<<"Cannot use 'in' operator to search for '",
                                       missing.param, "' in undefined">>)]
         ELSE IF missing.kind = "missing"
         THEN [kind |-> "throw", tool |-> 0,
               outcome |-> McpError("InvalidParams",
                                    <<"Missing required parameter: ", missing.param>>)]
         ELSE [kind |-> "await", tool |-> found.index, outcome |-> NoOutcome]

\* The try block after `await tool.function(args)` resolved with result.
CallToolResolved(result) ==
    LET json == JsonStringify(result) IN
    IF json.kind = "ok" THEN ContentEnvelope(json.text)
    ELSE McpError("InternalError", <<"API error: ", json.text>>)

\* A faulty catch block that reports a fixed text instead of error.message:
\* C4 fails with it.
CallToolRejectedGeneric(message) ==
    McpError("InternalError", <<"API error: ", "internal error">>)

\* The catch block: tool.function(args) rejected with an Error.
CallToolRejected(message) ==
    McpError("InternalError", <<"API error: ", message>>)

\* A call_tool handler suspended at `await tool.function(args)`: its
\* request and the catalog entry it resolved are locals of the handler.
Dispatch(request, tool) == [request |-> request, tool |-> tool]

NoImpl == [kind |-> "none", value |-> ""]

NoResp ==
    [op |-> "none", server |-> "", request |-> NoRequest, outcome |-> NoOutcome,
     list |-> <<>>, invoked |-> 0, impl |-> NoImpl]

\* run() before its first statement of the stdio branch, and once the HTTP
\* server of the SSE branch listens.
ProcStart ==
    [pc |-> "start", servers |-> 0, transports |-> 0, handler |-> FALSE,
     sigint |-> "none", exited |-> "no"]

ProcListening == [ProcStart EXCEPT !.pc = "listening"]

\* The stdio branch after `await server.connect(transport)`.
ProcConnected ==
    [ProcStart EXCEPT !.pc = "connected", !.servers = 1, !.transports = 1,
                      !.handler = TRUE]

\* Servers whose transport is connected and can hand them a request.
LiveServers ==
    IF isSSE THEN {s \in SessionIds : conn[s] = "open"}
    ELSE IF proc.pc = "connected" /\ proc.sigint = "none" /\ proc.exited = "no"
    THEN {StdioServer} ELSE {}

\* A completion that waits until no other server has a dispatch in flight:
\* C15 fails with it.
AwaitingAlone(s, call) ==
    /\ call \in calls[s]
    /\ proc.exited = "no"
    /\ \A t \in Servers \ {s} : calls[t] = {}

\* The handler of server s is suspended at `await tool.function(args)` with
\* the locals of `call`, in a process that still runs.
Awaiting(s, call) ==
    /\ call \in calls[s]
    /\ proc.exited = "no"

(***************************************************************************)
(* Protocol handlers (setupServerHandlers)                                 *)
(***************************************************************************)

\* server.setRequestHandler(ListToolsRequestSchema, ...)
ListToolsRequest(s) ==
    /\ s \in LiveServers
    /\ resp' = [NoResp EXCEPT !.op = "list_tools", !.server = s,
                              !.list = transformTools(tools)]
    /\ UNCHANGED <<proc, isSSE, nodeEnv, tools, transports, servers, conn,
                   nextSession, calls, rest, restResp, lastPost>>

\* server.setRequestHandler(CallToolRequestSchema, ...) up to its await.
CallToolRequest(s, request) ==
    /\ s \in LiveServers
    /\ Cardinality(calls[s]) < MaxInFlight
    /\ LET sync == CallToolSync(tools, request) IN
       IF sync.kind = "throw"
       THEN /\ resp' = [NoResp EXCEPT !.op = "call_tool", !.server = s,
                                      !.request = request,
                                      !.outcome = sync.outcome]
            /\ calls' = calls
       ELSE /\ calls' = [calls EXCEPT ![s] = @ \cup {Dispatch(request, sync.tool)}]
            /\ resp' = NoResp
    /\ UNCHANGED <<proc, isSSE, nodeEnv, tools, transports, servers, conn,
                   nextSession, rest, restResp, lastPost>>

\* A faulty handler that keeps its request in a variable shared by all
\* dispatches, so that an answer carries the request of some dispatch in
\* flight: C16 fails with it.
ToolReturnsSharedRequest(s, call, result) ==
    /\ Awaiting(s, call)
    /\ LET inFlight == UNION {calls[t] : t \in Servers}
           shared == IF inFlight = {call} THEN call
                     ELSE CHOOSE c \in inFlight : c # call IN
       resp' = [NoResp EXCEPT !.op = "call_tool", !.server = s,
                              !.request = shared.request,
                              !.outcome = CallToolResolved(result),
                              !.invoked = shared.tool,
                              !.impl = [kind |-> "returned", value |-> result]]
    /\ calls' = [calls EXCEPT ![s] = @ \ {call}]
    /\ UNCHANGED <<proc, isSSE, nodeEnv, tools, transports, servers, conn,
                   nextSession, rest, restResp, lastPost>>

\* tool.function(args) resolves: the rest of the try block.
ToolReturns(s, call, result) ==
    /\ Awaiting(s, call)
    /\ resp' = [NoResp EXCEPT !.op = "call_tool", !.server = s,
                              !.request = call.request,
                              !.outcome = CallToolResolved(result),
                              !.invoked = call.tool,
                              !.impl = [kind |-> "returned", value |-> result]]
    /\ calls' = [calls EXCEPT ![s] = @ \ {call}]
    /\ UNCHANGED <<proc, isSSE, nodeEnv, tools, transports, servers, conn,
                   nextSession, rest, restResp, lastPost>>

\* tool.function(args) rejects: the catch block.
ToolThrows(s, call, message) ==
    /\ Awaiting(s, call)
    /\ resp' = [NoResp EXCEPT !.op = "call_tool", !.server = s,
                              !.request = call.request,
                              !.outcome = CallToolRejected(message),
                              !.invoked = call.tool,
                              !.impl = [kind |-> "threw", value |-> message]]
    /\ calls' = [calls EXCEPT ![s] = @ \ {call}]
    /\ UNCHANGED <<proc, isSSE, nodeEnv, tools, transports, servers, conn,
                   nextSession, rest, restResp, lastPost>>

(***************************************************************************)
(* REST endpoints (SSE mode)                                               *)
(***************************************************************************)

\* req.body of POST /api/call-tool: { toolName, arguments }.
NoBody == [hasToolName |-> FALSE, toolName |-> "", args |-> NoArguments]

RestBodies ==
    [hasToolName : {TRUE}, toolName : RequestNames, args : Arguments]
        \cup {[NoBody EXCEPT !.args = a] : a \in Arguments}

\* An answer of a REST endpoint: the status, the keys of the JSON body
\* (`fields`) and their values. unhandled: the handler threw outside any
\* try block and sent nothing.
NoRestResp ==
    [endpoint |-> "none", status |-> 0, fields |-> {}, error |-> <<>>,
     availableTools |-> <<>>, requiredParameters |-> <<>>, result |-> "",
     list |-> <<>>, body |-> NoBody, invoked |-> 0, impl |-> NoImpl,
     unhandled |-> FALSE]

\* res.status(status).json({ error })
RestError(status, message) ==
    [NoRestResp EXCEPT !.status = status, !.fields = {"error"},
                       !.error = message]

\* The catch block of POST /api/call-tool: { error: error.message, stack }
\* with stack undefined (dropped by JSON) unless NODE_ENV is development.
RestCatch(message, env) ==
    [NoRestResp EXCEPT !.status = 500, !.error = message,
                       !.fields = IF env = "development"
                                  THEN {"error", "stack"} ELSE {"error"}]

\* POST /api/call-tool up to its await.
ApiCallToolSync(catalog, body, env) ==
    IF ~body.hasToolName \/ body.toolName = ""
    THEN [kind |-> "respond", tool |-> 0,
          answer |-> RestError(400, <<"Missing required field: toolName">>)]
    ELSE LET found == Find(catalog, body.toolName) IN
    IF found.kind = "TypeError"
    THEN [kind |-> "respond", tool |-> 0,
          answer |-> RestCatch(<<"Cannot read properties of undefined">>, env)]
    ELSE IF found.kind = "undefined"
    THEN LET names == ToolNameList(catalog) IN
         IF names.kind = "TypeError"
         THEN [kind |-> "respond", tool |-> 0,
               answer |-> RestCatch(<<"Cannot read properties of undefined">>, env)]
         ELSE [kind |-> "respond", tool |-> 0,
               answer |-> [RestError(404, <<"Tool '", body.toolName, "' not found">>)
                              EXCEPT !.fields = {"error", "availableTools"},
                                     !.availableTools = names.names]]
    ELSE LET requiredParams == RequiredParameters(catalog[found.index])
             missing == FirstMissing(requiredParams, body.args) IN
         IF missing.kind = "TypeError"
         THEN [kind |-> "respond", tool |-> 0,
               answer |-> RestCatch(<<"Cannot use 'in' operator to search for '",
                                      missing.param, "' in undefined">>, env)]
         ELSE IF missing.kind = "missing"
         THEN [kind |-> "respond", tool |-> 0,
               answer |-> [RestError(400, <<"Missing required parameter: ",
                                            missing.param>>)
                              EXCEPT !.fields = {"error", "requiredParameters"},
                                     !.requiredParameters = requiredParams]]
         ELSE [kind |-> "await", tool |-> found.index, answer |-> NoRestResp]

\* res.json(result) after the implementation resolved; a value that cannot
\* be serialised throws inside the try block.
ApiCallToolResolved(result, env) ==
    LET json == JsonStringify(result) IN
    IF json.kind = "ok"
    THEN [NoRestResp EXCEPT !.status = 200, !.fields = {"result"},
                            !.result = result]
    ELSE RestCatch(<<json.text>>, env)

IdleRest == [phase |-> "idle", body |-> NoBody, tool |-> 0]

\* app.post("/api/call-tool") up to its await.
ApiCallTool(body) ==
    /\ isSSE
    /\ rest.phase = "idle"
    /\ LET sync == ApiCallToolSync(tools, body, nodeEnv) IN
       IF sync.kind = "respond"
       THEN /\ restResp' = [sync.answer EXCEPT !.endpoint = "/api/call-tool",
                                               !.body = body]
            /\ rest' = rest
       ELSE /\ rest' = [phase |-> "awaiting", body |-> body, tool |-> sync.tool]
            /\ restResp' = NoRestResp
    /\ UNCHANGED <<proc, isSSE, nodeEnv, tools, transports, servers, conn,
                   nextSession, calls, resp, lastPost>>

\* tool.function(args) of POST /api/call-tool resolves.
ApiToolReturns(result) ==
    /\ rest.phase = "awaiting"
    /\ restResp' = [ApiCallToolResolved(result, nodeEnv)
                       EXCEPT !.endpoint = "/api/call-tool", !.body = rest.body,
                              !.invoked = rest.tool,
                              !.impl = [kind |-> "returned", value |-> result]]
    /\ rest' = IdleRest
    /\ UNCHANGED <<proc, isSSE, nodeEnv, tools, transports, servers, conn,
                   nextSession, calls, resp, lastPost>>

\* tool.function(args) of POST /api/call-tool rejects: the catch block.
ApiToolThrows(message) ==
    /\ rest.phase = "awaiting"
    /\ restResp' = [RestCatch(<<message>>, nodeEnv)
                       EXCEPT !.endpoint = "/api/call-tool", !.body = rest.body,
                              !.invoked = rest.tool,
                              !.impl = [kind |-> "threw", value |-> message]]
    /\ rest' = IdleRest
    /\ UNCHANGED <<proc, isSSE, nodeEnv, tools, transports, servers, conn,
                   nextSession, calls, resp, lastPost>>

\* A faulty GET /api/tools that reverses the catalog in place before
\* listing it: C17 fails with it.
ApiToolsReversing ==
    /\ isSSE
    /\ tools' = [i \in 1..Len(tools) |-> tools[Len(tools) + 1 - i]]
    /\ restResp' =
          IF ToolNameList(tools).kind = "TypeError"
          THEN [NoRestResp EXCEPT !.endpoint = "/api/tools", !.unhandled = TRUE]
          ELSE [NoRestResp EXCEPT !.endpoint = "/api/tools", !.status = 200,
                                  !.fields = {"tools"},
                                  !.list = [i \in 1..Len(tools) |-> WireEntry(tools'[i])]]
    /\ UNCHANGED <<proc, isSSE, nodeEnv, transports, servers, conn,
                   nextSession, calls, resp, rest, lastPost>>

\* app.get("/api/tools"): an async handler without a try block.
ApiTools ==
    /\ isSSE
    /\ restResp' =
          IF ToolNameList(tools).kind = "TypeError"
          THEN [NoRestResp EXCEPT !.endpoint = "/api/tools", !.unhandled = TRUE]
          ELSE [NoRestResp EXCEPT !.endpoint = "/api/tools", !.status = 200,
                                  !.fields = {"tools"},
                                  !.list = [i \in 1..Len(tools) |-> WireEntry(tools[i])]]
    /\ UNCHANGED <<proc, isSSE, nodeEnv, tools, transports, servers, conn,
                   nextSession, calls, resp, rest, lastPost>>

\* app.get("/"): a synchronous handler; a throw reaches the framework's
\* error handler, which answers 500.
Root ==
    /\ isSSE
    /\ restResp' =
          IF ToolNameList(tools).kind = "TypeError"
          THEN [NoRestResp EXCEPT !.endpoint = "/", !.status = 500]
          ELSE [NoRestResp EXCEPT !.endpoint = "/", !.status = 200,
                                  !.fields = {"message", "endpoints", "availableTools"},
                                  !.availableTools = ToolNameList(tools).names]
    /\ UNCHANGED <<proc, isSSE, nodeEnv, tools, transports, servers, conn,
                   nextSession, calls, resp, rest, lastPost>>

(***************************************************************************)
(* Session registries (SSE mode)                                           *)
(***************************************************************************)

\* obj[key] on an object literal: an own property, else one inherited from
\* Object.prototype, else undefined.
Lookup(obj, key) ==
    IF key \in DOMAIN obj THEN obj[key]
    ELSE IF key \in ObjectPrototypeKeys
    THEN [kind |-> "inherited", sessionId |-> key]
    ELSE [kind |-> "undefined", sessionId |-> ""]

Truthy(value) == value.kind # "undefined"

\* delete obj[key]
Delete(obj, key) == [k \in DOMAIN obj \ {key} |-> obj[k]]

\* req.query.sessionId of a POST /messages: an allocated or not yet
\* allocated session identifier, a name of Object.prototype, or another
\* string.
PostSessionIds == SessionIds \cup ObjectPrototypeKeys \cup {"no-such-session"}

NoPost == [sessionId |-> "", status |-> 0, handedTo |-> "", threw |-> FALSE]

\* A faulty lookup that takes the first registered transport whatever the
\* sessionId: C8 fails with it.
PostTransportFirst(sessionId) ==
    IF DOMAIN transports = {} THEN Lookup(transports, sessionId)
    ELSE transports[CHOOSE k \in DOMAIN transports : TRUE]

\* transports[sessionId] of POST /messages.
PostTransport(sessionId) == Lookup(transports, sessionId)

\* A faulty GET /sse that starts the handshake with only the transport
\* registered: C13 fails with it.
SseConnectTransportOnly ==
    /\ isSSE
    /\ nextSession < MaxSessions
    /\ LET id == SessionId(nextSession + 1) IN
       /\ transports' = (id :> [kind |-> "transport", sessionId |-> id]) @@ transports
       /\ conn' = [conn EXCEPT ![id] = "connecting"]
    /\ nextSession' = nextSession + 1
    /\ UNCHANGED <<proc, isSSE, nodeEnv, tools, servers, calls, resp, rest,
                   restResp, lastPost>>

\* app.get("/sse") up to `await server.connect(transport)`: a new Server,
\* its handlers, a new transport, both registrations, the close listener.
SseConnect ==
    /\ isSSE
    /\ nextSession < MaxSessions
    /\ LET id == SessionId(nextSession + 1) IN
       /\ transports' = (id :> [kind |-> "transport", sessionId |-> id]) @@ transports
       /\ servers' = (id :> [kind |-> "server", sessionId |-> id]) @@ servers
       /\ conn' = [conn EXCEPT ![id] = "connecting"]
    /\ nextSession' = nextSession + 1
    /\ UNCHANGED <<proc, isSSE, nodeEnv, tools, calls, resp, rest, restResp, lastPost>>

\* `await server.connect(transport)` resolves.
SseConnected(s) ==
    /\ conn[s] = "connecting"
    /\ conn' = [conn EXCEPT ![s] = "open"]
    /\ UNCHANGED <<proc, isSSE, nodeEnv, tools, transports, servers, nextSession,
                   calls, resp, rest, restResp, lastPost>>

\* res.on("close") up to `await server.close()`.
SseClose(s) ==
    /\ conn[s] \in {"connecting", "open"}
    /\ transports' = Delete(transports, s)
    /\ conn' = [conn EXCEPT ![s] = "closing"]
    /\ UNCHANGED <<proc, isSSE, nodeEnv, tools, servers, nextSession,
                   calls, resp, rest, restResp, lastPost>>

\* `await server.close()` resolves: the handler's last statement runs.
ServerCloseResolved(s) ==
    /\ conn[s] = "closing"
    /\ servers' = Delete(servers, s)
    /\ conn' = [conn EXCEPT ![s] = "closed"]
    /\ UNCHANGED <<proc, isSSE, nodeEnv, tools, transports, nextSession,
                   calls, resp, rest, restResp, lastPost>>

\* `await server.close()` rejects: the handler ends there.
ServerCloseRejected(s) ==
    /\ conn[s] = "closing"
    /\ conn' = [conn EXCEPT ![s] = "closeFailed"]
    /\ UNCHANGED <<proc, isSSE, nodeEnv, tools, transports, servers, nextSession,
                   calls, resp, rest, restResp, lastPost>>

\* app.post("/messages")
PostMessages(sessionId) ==
    /\ isSSE
    /\ LET transport == PostTransport(sessionId)
           server == Lookup(servers, sessionId) IN
       lastPost' =
          IF Truthy(transport) /\ Truthy(server)
          THEN IF transport.kind = "transport"
               THEN [NoPost EXCEPT !.sessionId = sessionId,
                                   !.handedTo = transport.sessionId]
               ELSE [NoPost EXCEPT !.sessionId = sessionId, !.threw = TRUE]
          ELSE [NoPost EXCEPT !.sessionId = sessionId, !.status = 400]
    /\ UNCHANGED <<proc, isSSE, nodeEnv, tools, transports, servers, conn,
                   nextSession, calls, resp, rest, restResp>>

(***************************************************************************)
(* The stdio branch of run() and its SIGINT handler                        *)
(***************************************************************************)

\* new Server(...) and `await setupServerHandlers(server, tools)`.
StdioNewServer ==
    /\ ~isSSE
    /\ proc.pc = "start" /\ proc.exited = "no"
    /\ proc' = [proc EXCEPT !.pc = "server", !.servers = @ + 1]
    /\ UNCHANGED <<isSSE, nodeEnv, tools, transports, servers, conn,
                   nextSession, calls, resp, rest, restResp, lastPost>>

\* process.on("SIGINT", ...), new StdioServerTransport() and the call of
\* server.connect(transport), up to its await.
StdioConnect ==
    /\ ~isSSE
    /\ proc.pc = "server" /\ proc.exited = "no"
    /\ proc' = [proc EXCEPT !.pc = "connecting", !.handler = TRUE,
                            !.transports = @ + 1]
    /\ UNCHANGED <<isSSE, nodeEnv, tools, transports, servers, conn,
                   nextSession, calls, resp, rest, restResp, lastPost>>

\* `await server.connect(transport)` resolves.
StdioConnected ==
    /\ ~isSSE
    /\ proc.pc = "connecting" /\ proc.exited = "no"
    /\ proc' = [proc EXCEPT !.pc = "connected"]
    /\ UNCHANGED <<isSSE, nodeEnv, tools, transports, servers, conn,
                   nextSession, calls, resp, rest, restResp, lastPost>>

\* SIGINT while no listener is installed: the runtime's default ends the
\* process.
SigintDefault ==
    /\ ~isSSE
    /\ ~proc.handler /\ proc.exited = "no"
    /\ proc' = [proc EXCEPT !.exited = "signal"]
    /\ UNCHANGED <<isSSE, nodeEnv, tools, transports, servers, conn,
                   nextSession, calls, resp, rest, restResp, lastPost>>

\* SIGINT with the listener installed: the listener runs up to
\* `await server.close()`.
Sigint ==
    /\ ~isSSE
    /\ proc.handler /\ proc.exited = "no"
    /\ proc.sigint \in {"none", "rejected"}
    /\ proc' = [proc EXCEPT !.sigint = "closing"]
    /\ UNCHANGED <<isSSE, nodeEnv, tools, transports, servers, conn,
                   nextSession, calls, resp, rest, restResp, lastPost>>

\* `await server.close()` of the listener resolves: process.exit(0).
SigintCloseResolved ==
    /\ proc.sigint = "closing" /\ proc.exited = "no"
    /\ proc' = [proc EXCEPT !.sigint = "closed", !.exited = "exit(0)"]
    /\ UNCHANGED <<isSSE, nodeEnv, tools, transports, servers, conn,
                   nextSession, calls, resp, rest, restResp, lastPost>>

\* `await server.close()` of the listener rejects: the listener ends there
\* and process.exit(0) is not reached.
SigintCloseRejected ==
    /\ proc.sigint = "closing" /\ proc.exited = "no"
    /\ proc' = [proc EXCEPT !.sigint = "rejected"]
    /\ UNCHANGED <<isSSE, nodeEnv, tools, transports, servers, conn,
                   nextSession, calls, resp, rest, restResp, lastPost>>

\* The listener's rejected promise has no handler: a runtime that treats
\* unhandled rejections as fatal ends the process with a failure code; one
\* that only warns never takes this step.
UnhandledRejection ==
    /\ proc.sigint = "rejected" /\ proc.exited = "no"
    /\ proc' = [proc EXCEPT !.exited = "crash"]
    /\ UNCHANGED <<isSSE, nodeEnv, tools, transports, servers, conn,
                   nextSession, calls, resp, rest, restResp, lastPost>>

(***************************************************************************)
(* Specifications                                                          *)
(***************************************************************************)

\* The catalog of the session specification: the repository's first tool
\* and a tool whose schema has no required list.
SessionCatalog ==
    <<request_access_token, ApiTool("search_flight_offers", FALSE, <<>>)>>

AllArguments == [given |-> TRUE, map |-> [k \in ParamKeys |-> "JFK"]]

\* arguments: {}
EmptyArguments == [given |-> TRUE, map |-> [k \in ParamKeys |-> Absent]]

\* call_tool requests of the session specification: one for each tool that
\* reaches the implementation, and one that fails the first tool's
\* validation with the arguments the second tool accepts.
SessionRequests ==
    {[name |-> "request_access_token", args |-> AllArguments],
     [name |-> "search_flight_offers", args |-> EmptyArguments],
     [name |-> "request_access_token", args |-> EmptyArguments]}

InitCommon ==
    /\ transports = <<>>
    /\ servers = <<>>
    /\ conn = [s \in SessionIds |-> "unused"]
    /\ nextSession = 0
    /\ calls = [s \in Servers |-> {}]
    /\ resp = NoResp
    /\ rest = IdleRest
    /\ restResp = NoRestResp
    /\ lastPost = NoPost

\* SSE mode: sessions connect, close and post while their servers dispatch.
Init ==
    /\ isSSE = TRUE
    /\ proc = ProcListening
    /\ nodeEnv = "production"
    /\ tools = SessionCatalog
    /\ InitCommon

Next ==
    \/ SseConnect
    \/ \E s \in SessionIds : SseConnected(s)
    \/ \E s \in SessionIds : SseClose(s)
    \/ \E s \in SessionIds : ServerCloseResolved(s)
    \/ \E s \in SessionIds : ServerCloseRejected(s)
    \/ \E sessionId \in PostSessionIds : PostMessages(sessionId)
    \/ \E s \in SessionIds : ListToolsRequest(s)
    \/ \E s \in SessionIds, request \in SessionRequests : CallToolRequest(s, request)
    \/ \E s \in SessionIds : \E call \in calls[s] :
          ToolReturns(s, call, "data")
    \/ \E s \in SessionIds : \E call \in calls[s], message \in ImplErrors :
          ToolThrows(s, call, message)

Spec == Init /\ [][Next]_vars

\* The dispatches of the session specification that reach their await.
SessionDispatches ==
    {Dispatch(r, CallToolSync(SessionCatalog, r).tool) :
        r \in {q \in SessionRequests : CallToolSync(SessionCatalog, q).kind = "await"}}

\* The implementation awaited by `call` settles and the handler of server s
\* runs on from its await.
Completes(s, call) ==
    \/ ToolReturns(s, call, "data")
    \/ \E message \in ImplErrors : ToolThrows(s, call, message)

\* The session whose implementations may never settle.
HungSession == SessionId(1)

\* Handlers are scheduled fairly: a dispatch whose implementation settles
\* is continued. Implementations invoked by HungSession need not settle.
FairSpec ==
    /\ Init
    /\ [][Next]_vars
    /\ \A s \in SessionIds \ {HungSession} : \A call \in SessionDispatches :
          WF_vars(Completes(s, call))

\* Bodies of POST /api/call-tool in the service specification: a tool of
\* the catalog and a name it does not have.
SessionBodies ==
    {[hasToolName |-> TRUE, toolName |-> n, args |-> AllArguments] :
        n \in {"request_access_token", "Search_Flight_Offers"}}

\* SSE mode with every kind of request: the sessions and their dispatches,
\* and the REST endpoints.
ServiceNext ==
    \/ Next
    \/ \E body \in SessionBodies : ApiCallTool(body)
    \/ ApiToolReturns("data")
    \/ \E message \in ImplErrors : ApiToolThrows(message)
    \/ ApiTools
    \/ Root

ServiceSpec == Init /\ [][ServiceNext]_vars

\* One server in either mode, any catalog, any request, one dispatch at a
\* time: the dispatch of the protocol path (stdio, connected) and of the
\* REST path (SSE, listening).
DispatchInit ==
    /\ isSSE \in BOOLEAN
    /\ proc = IF isSSE THEN ProcListening ELSE ProcConnected
    /\ nodeEnv \in NodeEnvs
    /\ tools \in discoverTools
    /\ InitCommon

DispatchNext ==
    \/ ListToolsRequest(StdioServer)
    \/ \E request \in CallRequests :
          calls[StdioServer] = {} /\ CallToolRequest(StdioServer, request)
    \/ \E call \in calls[StdioServer], result \in ImplResults :
          ToolReturns(StdioServer, call, result)
    \/ \E call \in calls[StdioServer], message \in ImplErrors :
          ToolThrows(StdioServer, call, message)
    \/ \E body \in RestBodies : ApiCallTool(body)
    \/ \E result \in ImplResults : ApiToolReturns(result)
    \/ \E message \in ImplErrors : ApiToolThrows(message)
    \/ ApiTools
    \/ Root

DispatchSpec == DispatchInit /\ [][DispatchNext]_vars

\* stdio mode from the first statement of its branch: start-up, requests
\* on the one server, interrupts.
StdioInit ==
    /\ isSSE = FALSE
    /\ proc = ProcStart
    /\ nodeEnv = "production"
    /\ tools = SessionCatalog
    /\ InitCommon

StdioNext ==
    \/ StdioNewServer
    \/ StdioConnect
    \/ StdioConnected
    \/ SigintDefault
    \/ Sigint
    \/ SigintCloseResolved
    \/ SigintCloseRejected
    \/ UnhandledRejection
    \/ ListToolsRequest(StdioServer)
    \/ \E request \in SessionRequests : CallToolRequest(StdioServer, request)
    \/ \E call \in calls[StdioServer], result \in ImplResults :
          ToolReturns(StdioServer, call, result)
    \/ \E call \in calls[StdioServer], message \in ImplErrors :
          ToolThrows(StdioServer, call, message)

StdioSpec == StdioInit /\ [][StdioNext]_vars

(***************************************************************************)
(* Vocabulary of the properties                                            *)
(***************************************************************************)

\* Positions of the catalog entries that have the definition wrapper.
WellFormed(catalog) == {i \in 1..Len(catalog) : catalog[i].wrapper}

\* Names the catalog's well-formed entries carry.
CatalogNames(catalog) == {catalog[i].name : i \in WellFormed(catalog)}

\* The entry a name resolves to: the first well-formed entry carrying it
\* (0 when there is none).
Resolved(catalog, name) ==
    LET matches == {i \in WellFormed(catalog) : catalog[i].name = name} IN
    IF matches = {} THEN 0
    ELSE CHOOSE i \in matches : \A j \in matches : i <= j

\* Required keys an arguments value does not supply.
MissingKeys(tool, args) ==
    {tool.required[i] : i \in {j \in 1..Len(tool.required) :
                                 ~args.given \/ args.map[tool.required[j]] = Absent}}

\* The first key, in the order of the tool's required list, that an
\* arguments value does not supply ("" when none is missing).
FirstMissingKey(tool, args) ==
    LET missing == {j \in 1..Len(tool.required) :
                       tool.required[j] \in MissingKeys(tool, args)} IN
    IF missing = {} THEN ""
    ELSE tool.required[CHOOSE j \in missing : \A k \in missing : j <= k]

\* Names that two or more well-formed entries of the catalog carry.
DuplicatedNames(catalog) ==
    {catalog[i].name : i \in {j \in WellFormed(catalog) :
        \E k \in WellFormed(catalog) : k # j /\ catalog[k].name = catalog[j].name}}

\* The catalog with its entries without the wrapper removed.
WithoutMalformed(catalog) == SelectSeq(catalog, LAMBDA tool : tool.wrapper)

\* The POST /api/call-tool body that carries a call_tool request's name and
\* arguments, and the call_tool request that carries a body's.
BodyOf(request) ==
    [hasToolName |-> TRUE, toolName |-> request.name, args |-> request.args]

RequestOf(body) == [name |-> body.toolName, args |-> body.args]

\* The answer of POST /api/call-tool to a missing required parameter.
IsMissingParameter400(answer) ==
    /\ answer.status = 400
    /\ "requiredParameters" \in answer.fields

ProtocolErrorCodes == {"MethodNotFound", "InvalidParams", "InternalError"}

\* Sessions whose stream is open.
OpenSessions == {s \in SessionIds : conn[s] \in {"connecting", "open"}}

\* C1: a call_tool request whose name matches no catalog entry ends with
\* MethodNotFound carrying the requested name, and no implementation is
\* invoked for it (stated for every catalog).
C1_UnknownToolIsMethodNotFound ==
    /\ (resp.op = "call_tool" /\ resp.request.name \notin CatalogNames(tools))
          => /\ resp.outcome = McpError("MethodNotFound",
                                        <<"Unknown tool: ", resp.request.name>>)
             /\ resp.invoked = 0
    /\ \A s \in Servers : \A call \in calls[s] :
          call.request.name \in CatalogNames(tools)

\* C2: for a tool with a non-empty required list and an arguments mapping,
\* exactly one required key absent ends the call with InvalidParams naming
\* that key without invoking the implementation, and all required keys
\* present invokes the implementation with the arguments, whatever the values.
C2_RequiredKeysDecideInvocation ==
    /\ \A s \in Servers : \A call \in calls[s] :
          LET t == Resolved(tools, call.request.name) IN
          (t # 0 /\ RequiredParameters(tools[t]) # <<>>)
              => /\ MissingKeys(tools[t], call.request.args) = {}
                 /\ call.tool = t
    /\ LET t == Resolved(tools, resp.request.name) IN
       (/\ resp.op = "call_tool"
        /\ t # 0
        /\ RequiredParameters(tools[t]) # <<>>
        /\ resp.request.args.given)
          => LET missing == MissingKeys(tools[t], resp.request.args) IN
             /\ Cardinality(missing) = 1
                   => /\ resp.invoked = 0
                      /\ \E p \in missing :
                            resp.outcome = McpError("InvalidParams",
                                 <<"Missing required parameter: ", p>>)
             /\ missing = {} => resp.invoked = t

\* C3: every call_tool request ends in a success envelope or in one of
\* MethodNotFound, InvalidParams, InternalError; nothing else leaves the
\* handler (stated for every arguments value and every catalog).
C3_OnlyProtocolOutcomes ==
    resp.op = "call_tool"
        => \/ resp.outcome.kind = "success"
           \/ /\ resp.outcome.kind = "McpError"
              /\ resp.outcome.code \in ProtocolErrorCodes

\* C4: an implementation that rejects ends its call with InternalError whose
\* message contains the failure's message, and that step changes nothing a
\* later request depends on: the catalog, the registries, the sessions and
\* the other dispatches stay as they were, and the failed dispatch is no
\* longer in flight.
C4_FailureIsIsolated ==
    /\ [](resp.impl.kind = "threw"
            => /\ resp.outcome.kind = "McpError"
               /\ resp.outcome.code = "InternalError"
               /\ \E i \in DOMAIN resp.outcome.message :
                     resp.outcome.message[i] = resp.impl.value)
    /\ [][\A s \in Servers :
            (calls'[s] # calls[s] /\ resp'.impl.kind = "threw")
               => /\ resp'.server = s
                  /\ tools' = tools
                  /\ transports' = transports
                  /\ servers' = servers
                  /\ conn' = conn
                  /\ \E call \in calls[s] :
                        /\ call.request = resp'.request
                        /\ calls' = [calls EXCEPT ![s] = @ \ {call}]
                  /\ transformTools(tools') = transformTools(tools)
                  /\ \A r \in SessionRequests :
                        CallToolSync(tools', r) = CallToolSync(tools, r)]_vars

\* C4 happens: a call failed in one session while another session is open.
C4_Witness ==
    /\ resp.impl.kind = "threw"
    /\ resp.outcome.code = "InternalError"
    /\ \E s \in OpenSessions : s # resp.server

\* C5: once the close handler releases the server (server.close), and after
\* the handler has ended whether the release succeeded or failed, the
\* session is in neither registry.
C5_UnregisteredBeforeRelease ==
    \A s \in SessionIds :
        conn[s] \in {"closing", "closed", "closeFailed"}
            => s \notin DOMAIN transports /\ s \notin DOMAIN servers

\* C6: in every state a handler can observe, a session identifier is in
\* both registries or in neither, and each entry belongs to that session.
C6_RegistriesAgree ==
    /\ DOMAIN transports = DOMAIN servers
    /\ \A s \in DOMAIN transports : transports[s].sessionId = s
    /\ \A s \in DOMAIN servers : servers[s].sessionId = s

\* C7: a POST /messages whose sessionId has no registered pair is answered
\* 400, is handed to no transport and leaves both registries unchanged.
C7_UnknownSessionIs400 ==
    [][(/\ lastPost' # lastPost
        /\ ~(lastPost'.sessionId \in DOMAIN transports
               /\ lastPost'.sessionId \in DOMAIN servers))
          => /\ lastPost'.status = 400
             /\ lastPost'.handedTo = ""
             /\ ~lastPost'.threw
             /\ transports' = transports
             /\ servers' = servers]_vars

\* C8: open sessions have their own transport and server, and a POST
\* /messages?sessionId=A is handed to the transport registered for A or to
\* none, and changes no registry entry, session or dispatch.
C8_PostsAreRoutedBySession ==
    /\ [](\A a \in OpenSessions :
             /\ a \in DOMAIN transports /\ transports[a].sessionId = a
             /\ a \in DOMAIN servers /\ servers[a].sessionId = a)
    /\ [][lastPost' # lastPost
            => /\ lastPost'.handedTo \in {"", lastPost'.sessionId}
               /\ lastPost'.handedTo # ""
                     => /\ lastPost'.handedTo \in OpenSessions
                        /\ transports[lastPost'.handedTo].sessionId
                              = lastPost'.sessionId
               /\ transports' = transports
               /\ servers' = servers
               /\ conn' = conn
               /\ calls' = calls]_vars

\* C8 happens: two sessions are open and a post was handed to one of them.
C8_Witness ==
    /\ Cardinality(OpenSessions) >= 2
    /\ lastPost.handedTo \in OpenSessions

\* C9: POST /api/call-tool answers 400 without a toolName, 404 with the
\* available names for an unknown tool, 400 with the full required list
\* (and no invocation) when a required key is missing, the arguments field
\* being absent included, 500 only when the invoked implementation failed,
\* and otherwise the implementation's result.
C9_RestStatuses ==
    LET body == restResp.body
        t == Resolved(tools, body.toolName) IN
    restResp.endpoint = "/api/call-tool"
        => /\ ~body.hasToolName => restResp.status = 400
           /\ (body.hasToolName /\ t = 0)
                 => /\ restResp.status = 404
                    /\ "availableTools" \in restResp.fields
           /\ (body.hasToolName /\ t # 0 /\ MissingKeys(tools[t], body.args) # {}
                 /\ RequiredParameters(tools[t]) # <<>>)
                 => /\ restResp.status = 400
                    /\ restResp.requiredParameters = tools[t].required
                    /\ restResp.invoked = 0
           /\ restResp.status = 500 => restResp.impl.kind = "threw"
           /\ restResp.impl.kind = "returned"
                 => restResp.status = 200 /\ restResp.result = restResp.impl.value

\* C10: list_tools answers one {name, description, inputSchema} entry per
\* catalog entry that has the wrapper, in catalog order, entries without it
\* being dropped; the catalog is unchanged and a second list_tools gives
\* the same list.
C10_ListToolsIsTheWellFormedEntries ==
    /\ [](resp.op = "list_tools"
            => /\ Len(resp.list) = Cardinality(WellFormed(tools))
               /\ \E f \in [1..Len(resp.list) -> WellFormed(tools)] :
                     /\ \A j, k \in 1..Len(resp.list) : j < k => f[j] < f[k]
                     /\ \A k \in 1..Len(resp.list) :
                           /\ resp.list[k].name = tools[f[k]].name
                           /\ resp.list[k].description = tools[f[k]].description
                           /\ resp.list[k].hasRequired = tools[f[k]].hasRequired
                           /\ resp.list[k].required = tools[f[k]].required)
    /\ [][resp'.op = "list_tools" => tools' = tools]_vars
    /\ [][(resp.op = "list_tools" /\ resp'.op = "list_tools")
             => resp'.list = resp.list]_vars

\* C10 happens: list_tools answered for a catalog holding an entry with the
\* wrapper and one without.
C10_Witness ==
    /\ resp.op = "list_tools"
    /\ Len(tools) = 2
    /\ Cardinality(WellFormed(tools)) = 1
    /\ Len(resp.list) = 1

\* C11: a failed implementation is reported with its top-level
\* message only, never its stack, by the protocol path (InternalError) and
\* by the REST path (the body of the 500), whatever the process
\* configuration.
C11_OnlyTheMessage ==
    /\ resp.impl.kind = "threw"
          => resp.outcome = McpError("InternalError",
                                     <<"API error: ", resp.impl.value>>)
    /\ restResp.impl.kind = "threw"
          => /\ restResp.status = 500
             /\ restResp.error = <<restResp.impl.value>>
             /\ restResp.fields = {"error"}

\* C12: a call_tool request that lacks several required parameters of the
\* tool it names ends with InvalidParams naming the first missing one in
\* the order of the schema's required list, names no later one, and does
\* not invoke the implementation.
C12_FirstMissingParameterOnly ==
    /\ \A s \in Servers : \A call \in calls[s] :
          LET t == Resolved(tools, call.request.name) IN
          (t # 0 /\ RequiredParameters(tools[t]) # <<>>)
              => Cardinality(MissingKeys(tools[t], call.request.args)) < 2
    /\ LET t == Resolved(tools, resp.request.name) IN
       (/\ resp.op = "call_tool"
        /\ t # 0
        /\ RequiredParameters(tools[t]) # <<>>
        /\ Cardinality(MissingKeys(tools[t], resp.request.args)) >= 2)
          => /\ resp.invoked = 0
             /\ resp.outcome =
                   McpError("InvalidParams",
                            <<"Missing required parameter: ",
                              FirstMissingKey(tools[t], resp.request.args)>>)

\* C13: from the start of a session's connect handshake until its stream's
\* close event both registry entries of the session are present, and a POST
\* /messages carrying its identifier is handed to that session's transport,
\* never answered 400.
C13_RegisteredBeforeHandshake ==
    /\ [](\A s \in SessionIds :
             conn[s] \in {"connecting", "open"}
                => /\ Lookup(transports, s) = [kind |-> "transport", sessionId |-> s]
                   /\ Lookup(servers, s) = [kind |-> "server", sessionId |-> s])
    /\ [][(/\ lastPost' # lastPost
           /\ lastPost'.sessionId \in SessionIds
           /\ conn[lastPost'.sessionId] \in {"connecting", "open"})
             => /\ lastPost'.handedTo = lastPost'.sessionId
                /\ lastPost'.status # 400
                /\ ~lastPost'.threw]_vars

\* C13 happens: a post was handed to the transport of a session whose
\* handshake has not ended yet.
C13_Witness ==
    \E s \in SessionIds :
        /\ conn[s] = "connecting"
        /\ lastPost.sessionId = s
        /\ lastPost.handedTo = s

\* C14: when a session's stream closes while one of its call_tool
\* dispatches awaits the implementation, the session leaves both registries
\* and the close handler ends without a failure; the close steps neither
\* abort nor restart the dispatch; the dispatch later completes with its own
\* request, and that late completion changes no registry, no session and no
\* other dispatch.
C14_CloseLeavesDispatchRunning ==
    /\ [](\A s \in SessionIds :
             (calls[s] # {} /\ conn[s] \in {"closing", "closed", "closeFailed"})
                => /\ s \notin DOMAIN transports
                   /\ conn[s] # "closing" => s \notin DOMAIN servers
                   /\ conn[s] # "closeFailed")
    /\ [][conn' # conn => calls' = calls]_vars
    /\ [][\A s \in SessionIds : \A call \in calls[s] :
            (call \notin calls'[s] /\ conn[s] # "open")
               => /\ resp'.server = s
                  /\ resp'.request = call.request
                  /\ resp'.invoked = call.tool
                  /\ calls' = [calls EXCEPT ![s] = @ \ {call}]
                  /\ transports' = transports
                  /\ servers' = servers
                  /\ conn' = conn]_vars

\* C15: whatever dispatches of another session never complete, a call_tool
\* dispatch of a session whose implementation completes is eventually
\* answered, an open session can always be answered its list_tools and can
\* start a call_tool, and a new GET /sse is always accepted and registered.
C15_HungCallBlocksOnlyItself ==
    /\ \A s \in SessionIds \ {HungSession} : \A call \in SessionDispatches :
          (call \in calls[s]) ~> (call \notin calls[s])
    /\ [](\A s \in SessionIds :
             conn[s] = "open"
                => /\ ENABLED ListToolsRequest(s)
                   /\ Cardinality(calls[s]) < MaxInFlight
                         => \A r \in SessionRequests : ENABLED CallToolRequest(s, r))
    /\ [](nextSession < MaxSessions => ENABLED SseConnect)

\* C15 happens: a call of another session was answered while a dispatch of
\* HungSession is still awaiting its implementation.
C15_Witness ==
    /\ calls[HungSession] # {}
    /\ resp.op = "call_tool"
    /\ resp.server \in SessionIds \ {HungSession}
    /\ resp.invoked # 0

\* C16: however concurrent call_tool dispatches interleave, a dispatch in
\* flight has resolved the first entry of its own name and passed that
\* entry's validation with its own arguments; starting or completing a
\* dispatch touches no other dispatch; and a completion answers with the
\* request and the tool of the dispatch that completed and with the outcome
\* of the value its own invocation settled with.
C16_DispatchesDoNotMix ==
    /\ [](\A s \in Servers : \A call \in calls[s] :
             /\ call.tool # 0
             /\ call.tool = Resolved(tools, call.request.name)
             /\ RequiredParameters(tools[call.tool]) # <<>>
                   => MissingKeys(tools[call.tool], call.request.args) = {})
    /\ [][\A s \in Servers :
            calls'[s] # calls[s]
               => /\ \A t \in Servers \ {s} : calls'[t] = calls[t]
                  /\ \/ \E call \in calls'[s] \ calls[s] :
                           /\ calls'[s] = calls[s] \cup {call}
                           /\ CallToolSync(tools, call.request) =
                                 [kind |-> "await", tool |-> call.tool,
                                  outcome |-> NoOutcome]
                     \/ \E call \in calls[s] :
                           /\ calls'[s] = calls[s] \ {call}
                           /\ resp'.op = "call_tool"
                           /\ resp'.server = s
                           /\ resp'.request = call.request
                           /\ resp'.invoked = call.tool
                           /\ resp'.outcome =
                                 IF resp'.impl.kind = "returned"
                                 THEN CallToolResolved(resp'.impl.value)
                                 ELSE CallToolRejected(resp'.impl.value)]_vars

\* C16 happens: a dispatch was answered while dispatches of both tools are
\* in flight, two of them in one session.
C16_Witness ==
    /\ resp.op = "call_tool"
    /\ resp.invoked # 0
    /\ \E s \in SessionIds : Cardinality(calls[s]) >= 2
    /\ \E s, t \in SessionIds : s # t /\ calls[s] # {} /\ calls[t] # {}

\* C17: no step changes the catalog, so it stays the one loaded at
\* startup; every server answers list_tools, and GET /api/tools lists, from
\* that one catalog, so all list_tools answers of a run are the same.
C17_CatalogIsFrozen ==
    /\ [][tools' = tools]_vars
    /\ [](tools = SessionCatalog)
    /\ [](resp.op = "list_tools" => resp.list = transformTools(SessionCatalog))
    /\ [](restResp.endpoint = "/api/tools"
             => restResp.list = [i \in 1..Len(SessionCatalog) |->
                                    WireEntry(SessionCatalog[i])])

\* C17 happens: list_tools answered in a run that has seen a REST listing, a
\* posted message handed to a transport, and a session opened and closed.
C17_Witness ==
    /\ resp.op = "list_tools"
    /\ restResp.endpoint = "/api/tools"
    /\ lastPost.handedTo # ""
    /\ \E s \in SessionIds : conn[s] = "closed" /\ s # resp.server

\* C18: for a name that two catalog entries carry, a dispatch with an
\* arguments object, by call_tool or by POST /api/call-tool, resolves to the
\* first of them: a required key of that entry missing ends it with that
\* entry's validation error, otherwise that entry's implementation is
\* invoked; a later entry of the name is never invoked.
C18_FirstEntryOfANameWins ==
    /\ \A s \in Servers : \A call \in calls[s] :
          call.request.name \in DuplicatedNames(tools)
              => call.tool = Resolved(tools, call.request.name)
    /\ rest.phase = "awaiting" /\ rest.body.toolName \in DuplicatedNames(tools)
          => rest.tool = Resolved(tools, rest.body.toolName)
    /\ (resp.op = "call_tool" /\ resp.request.name \in DuplicatedNames(tools)
                              /\ resp.request.args.given)
          => LET first == Resolved(tools, resp.request.name) IN
             IF MissingKeys(tools[first], resp.request.args) # {}
                   /\ RequiredParameters(tools[first]) # <<>>
             THEN /\ resp.invoked = 0
                  /\ resp.outcome =
                        McpError("InvalidParams",
                                 <<"Missing required parameter: ",
                                   FirstMissingKey(tools[first], resp.request.args)>>)
             ELSE resp.invoked = first
    /\ (restResp.endpoint = "/api/call-tool" /\ restResp.body.hasToolName
           /\ restResp.body.toolName \in DuplicatedNames(tools)
           /\ restResp.body.args.given)
          => LET first == Resolved(tools, restResp.body.toolName) IN
             IF MissingKeys(tools[first], restResp.body.args) # {}
                   /\ RequiredParameters(tools[first]) # <<>>
             THEN /\ restResp.invoked = 0
                  /\ restResp.status = 400
                  /\ restResp.requiredParameters = tools[first].required
             ELSE restResp.invoked = first

\* C19: in stdio mode there is never more than one server and one
\* transport, and exactly one of each once the transport is being
\* connected; the SIGINT listener is installed by then; with the listener
\* installed the process exits only after server.close() has completed; and
\* once the listener has run to its end the process has exited.
C19_InterruptShutsDownThenExits ==
    /\ proc.servers <= 1 /\ proc.transports <= 1
    /\ proc.pc \in {"connecting", "connected"}
          => proc.servers = 1 /\ proc.transports = 1
    /\ proc.transports > 0 => proc.handler
    /\ (proc.handler /\ proc.exited # "no") => proc.sigint = "closed"
    /\ proc.sigint \in {"closed", "rejected"} => proc.exited # "no"

\* C20: list_tools leaves out the entries without the wrapper, and for the
\* names of the other entries call_tool, POST /api/call-tool, GET / and
\* GET /api/tools end as they would with those entries removed from the
\* catalog, wherever they stand in it.
C20_MalformedEntryIsInert ==
    LET clean == WithoutMalformed(tools) IN
    /\ resp.op = "list_tools" => resp.list = transformTools(clean)
    /\ \A s \in Servers : \A call \in calls[s] :
          LET sync == CallToolSync(clean, call.request) IN
          /\ sync.kind = "await"
          /\ clean[sync.tool] = tools[call.tool]
    /\ (resp.op = "call_tool" /\ resp.request.name \in CatalogNames(tools))
          => LET sync == CallToolSync(clean, resp.request) IN
             IF resp.invoked = 0
             THEN sync.kind = "throw" /\ resp.outcome = sync.outcome
             ELSE sync.kind = "await" /\ clean[sync.tool] = tools[resp.invoked]
    /\ (restResp.endpoint = "/api/call-tool"
           /\ restResp.body.toolName \in CatalogNames(tools))
          => LET sync == ApiCallToolSync(clean, restResp.body, nodeEnv) IN
             IF restResp.invoked = 0
             THEN /\ sync.kind = "respond"
                  /\ restResp = [sync.answer EXCEPT !.endpoint = "/api/call-tool",
                                                    !.body = restResp.body]
             ELSE sync.kind = "await" /\ clean[sync.tool] = tools[restResp.invoked]
    /\ restResp.endpoint = "/"
          => /\ restResp.status = 200
             /\ restResp.availableTools = ToolNameList(clean).names
    /\ restResp.endpoint = "/api/tools"
          => /\ restResp.status = 200
             /\ restResp.list = [i \in 1..Len(clean) |-> WireEntry(clean[i])]

\* C21: for every catalog, non-empty tool name and arguments value,
\* call_tool invokes an implementation exactly when POST /api/call-tool does
\* for the same name and arguments, and then the same catalog entry with
\* those arguments; and one path rejects for a missing parameter exactly
\* when the other does, both naming the same parameter.
C21_BothPathsDecideAlike ==
    /\ \A call \in calls[StdioServer] :
          LET other == ApiCallToolSync(tools, BodyOf(call.request), nodeEnv) IN
          other.kind = "await" /\ other.tool = call.tool
    /\ (resp.op = "call_tool" /\ resp.request.name # "")
          => LET other == ApiCallToolSync(tools, BodyOf(resp.request), nodeEnv) IN
             /\ resp.invoked # 0 <=> other.kind = "await"
             /\ resp.invoked # 0 => other.tool = resp.invoked
             /\ resp.invoked = 0
                   => /\ resp.outcome.code = "InvalidParams"
                            <=> IsMissingParameter400(other.answer)
                      /\ resp.outcome.code = "InvalidParams"
                            => other.answer.error = resp.outcome.message
    /\ rest.phase = "awaiting"
          => LET other == CallToolSync(tools, RequestOf(rest.body)) IN
             other.kind = "await" /\ other.tool = rest.tool
    /\ (restResp.endpoint = "/api/call-tool" /\ restResp.body.hasToolName
                                             /\ restResp.body.toolName # "")
          => LET other == CallToolSync(tools, RequestOf(restResp.body)) IN
             /\ restResp.invoked # 0 <=> other.kind = "await"
             /\ restResp.invoked # 0 => other.tool = restResp.invoked
             /\ restResp.invoked = 0
                   => /\ IsMissingParameter400(restResp)
                            <=> other.outcome.code = "InvalidParams"
                      /\ IsMissingParameter400(restResp)
                            => other.outcome.message = restResp.error

\* C21 happens: call_tool rejected a request that lacks both required
\* parameters of a tool standing second in the catalog, which POST
\* /api/call-tool rejects with the same parameter.
C21_Witness ==
    /\ resp.op = "call_tool"
    /\ resp.outcome.code = "InvalidParams"
    /\ Resolved(tools, resp.request.name) = 2
    /\ Cardinality(MissingKeys(tools[2], resp.request.args)) = 2
    /\ IsMissingParameter400(
          ApiCallToolSync(tools, BodyOf(resp.request), nodeEnv).answer)

====
